---- MODULE Spec2Model ----
(***************************************************************************)
(* A model of the job lifecycle of seo-maximus: the in-memory job store    *)
(* (app/services/job_store.py), the job record (app/models/job.py), the    *)
(* two Celery task dispatchers (app/tasks), the enqueue / status routes    *)
(* (app/api/routes) and the conversion pipeline they drive.                *)
(*                                                                         *)
(* Python objects live in a heap: the store maps a job id to a reference,  *)
(* and callers hold references, because get_job and create_job hand out    *)
(* the stored object itself and model_copy allocates a new one.            *)
(***************************************************************************)
EXTENDS Integers, Sequences, FiniteSets, TLC

VARIABLES
    heap,     \* the JobMetadata objects allocated so far, by reference 1..Len(heap)
    clock,    \* the last value datetime.utcnow() returned
    jobs,     \* per process: InMemoryJobStore._jobs, job id -> reference (0: absent)
    thr,      \* per thread: the call it is executing and its local variables
    eager,    \* celery's task_always_eager, which is settings.debug
    broker,   \* the task messages handed to the broker and not yet taken by a worker
    used,     \* the job ids uuid4 has already produced
    seen,     \* per job id: the last status a poller of the status route was given
    det,      \* one detection pass of MobileHeroDetector: the page and what it collected
    norm,     \* one call of _normalize_formats: the list requested and the list returned
    pipe      \* one call of ThirdPartyImageOptimizer.convert: request, world, outcome

vars == <<heap, clock, jobs, thr, eager, broker, used, seen, det, norm, pipe>>

\* the variables of the pure functions followed on their own
pureVars == <<det, norm, pipe>>

----------------------------------------------------------------------------
(* Bounds and small input sets *)

MaxObjs == 3                       \* JobMetadata objects allocated in one run
MaxSeqObjs == 4                    \* the same, in a run where one thread makes every call
MaxImages == 3                     \* img / picture elements of a page
MaxFormats == 3                    \* formats named in one request
MaxBytes == 6                      \* length of the source image and of a converted one

Threads == {"t1", "t2"}
JobIds == {"j1", "j2"}
Procs == {"api", "worker"}         \* each process imports job_store and owns one store

None == <<>>                       \* Optional[...] = None
Some(v) == <<v>>

JobTypes == {"image", "critical_css"}

\* image payloads: ImageConversionRequest.model_dump(mode="json")
DirectPayload == [source_url |-> Some("img"), target_page_url |-> None, formats |-> <<"webp">>]
PagePayload == [source_url |-> None, target_page_url |-> Some("page"), formats |-> <<"webp">>]
TwoFormatPayload == [source_url |-> Some("img"), target_page_url |-> None,
                     formats |-> <<"WEBP", "png">>]
\* critical-CSS payload: CriticalCSSRequest.model_dump()
CssPayload == [target_url |-> "page", template |-> "home"]
\* the payload a caller registers with a job of each type
PayloadOf(job_type) == IF job_type = "image" THEN DirectPayload ELSE CssPayload
Results == {[critical_css |-> "css"]}
Messages == {"boom"}

----------------------------------------------------------------------------
(* app/models/job.py *)

Statuses == {"queued", "processing", "completed", "failed"}

\* a constructor that ignores the status it is given and keeps the payload out
JobMetadata_drops_arguments(job_id, job_type, status, payload, now1, now2) ==
    [job_id |-> job_id, job_type |-> job_type, status |-> "processing",
     created_at |-> now1, updated_at |-> now2,
     error |-> None, payload |-> [k \in {} |-> 0], result |-> None]

\* JobMetadata(job_id=..., job_type=..., status=..., payload=...): created_at and
\* updated_at are two default_factory reads of the clock, error and result default
\* to None
JobMetadata(job_id, job_type, status, payload, now1, now2) ==
    [job_id |-> job_id, job_type |-> job_type, status |-> status,
     created_at |-> now1, updated_at |-> now2,
     error |-> None, payload |-> payload, result |-> None]

with_status(job, status, now) ==
    [job EXCEPT !.status = status, !.updated_at = now]

with_result(job, result, now) ==
    [job EXCEPT !.result = Some(result), !.status = "completed", !.updated_at = now]

with_error(job, message, now) ==
    [job EXCEPT !.error = Some(message), !.status = "failed", !.updated_at = now]

----------------------------------------------------------------------------
(* app/services/job_store.py: InMemoryJobStore, each method one critical section *)

\* self._jobs[job.job_id] = job
Store_create_job(store, job_id, ref) == [store EXCEPT ![job_id] = ref]

\* job_id not in self._jobs raises KeyError
Store_update_raises(store, job_id) == store[job_id] = 0

\* an update that stores the record under every id the store holds
Store_update_job_every_id(store, job_id, ref) ==
    [j \in DOMAIN store |-> IF store[j] # 0 THEN ref ELSE store[j]]

\* self._jobs[job_id] = job
Store_update_job(store, job_id, ref) == [store EXCEPT ![job_id] = ref]

\* self._jobs.get(job_id)
Store_get_job(store, job_id) == store[job_id]

----------------------------------------------------------------------------
(* Threads: a call frame of a job_store function, and under it the frame of the
   route or task that made the call *)

IdleThread ==
    [act |-> "idle", proc |-> "api",
     \* the job_store function being executed and its locals
     op |-> "none", pc |-> "idle", jid |-> "j1", jtype |-> "none", payload |-> None,
     result |-> None, message |-> "", job |-> 0, updated |-> 0,
     \* what the last call returned (a reference, 0: None) or raised
     ret |-> 0, exc |-> "none",
     \* the task being executed (kind, arguments, position), the outside world it
     \* meets, the exception its handler caught and the one it let out
     kind |-> "none", dpc |-> "none", tjid |-> "j1", tpayload |-> None,
     env |-> None, orig |-> <<>>, prop |-> <<>>]

\* the call returns `ret` (0: None) or raises `exc`; its locals die, the frame
\* under it stays
Return(th, ret, exc) ==
    [th EXCEPT !.pc = "ret", !.ret = ret, !.exc = exc,
               !.jid = "j1", !.jtype = "none", !.payload = None, !.result = None,
               !.message = "", !.job = 0, !.updated = 0]

\* a new call: what the last one left behind is dropped
Call(th, p, op) ==
    [Return(th, 0, "none") EXCEPT !.proc = p, !.op = op]

\* no detection pass and no normalization in progress
NoPass == [phase |-> "none", images |-> <<>>, collections |-> 0, candidates |-> <<>>,
           best |-> None, fault |-> "none", exc |-> "none", playwright |-> "none",
           browser |-> "none", context |-> "none", returned |-> None]
NoCall == [phase |-> "none", formats |-> None, normalized |-> <<>>]
NoRun == [phase |-> "none", payload |-> None, env |-> None, out |-> None]

TypeOK ==
    /\ clock \in Nat
    /\ Len(heap) <= MaxSeqObjs
    /\ \A p \in Procs : \A j \in JobIds : jobs[p][j] \in 0..Len(heap)
    /\ \A t \in Threads : thr[t].pc \in {"idle", "insert", "copy", "update", "ret"}

Init ==
    /\ heap = <<>>
    /\ clock = 0
    /\ jobs = [p \in Procs |-> [j \in JobIds |-> 0]]
    /\ thr = [t \in Threads |-> IdleThread]
    /\ eager = TRUE
    /\ broker = <<>>
    /\ used = {}
    /\ seen = [j \in JobIds |-> "none"]
    /\ det = NoPass
    /\ norm = NoCall
    /\ pipe = NoRun

\* thread t may allocate one more record: the run is cut off after MaxObjs
\* records, or after MaxSeqObjs while no other thread has made a call
Alone(t) == \A u \in Threads \ {t} : thr[u] = IdleThread

CanAlloc(t) == Len(heap) < MaxObjs \/ (Len(heap) < MaxSeqObjs /\ Alone(t))

\* job_store.create_job, line 44: the record is built (two clock reads); th is the
\* frame of thread t the call is made from
create_job_construct(t, th, p, job_id, job_type, payload) ==
    /\ CanAlloc(t)
    /\ heap' = Append(heap, JobMetadata(job_id, job_type, "queued", payload,
                                        clock + 1, clock + 2))
    /\ clock' = clock + 2
    /\ thr' = [thr EXCEPT ![t] = [Call(th, p, "create") EXCEPT
                                     !.pc = "insert", !.jid = job_id,
                                     !.jtype = job_type, !.payload = Some(payload),
                                     !.job = Len(heap) + 1]]
    /\ UNCHANGED jobs

\* job_store.create_job, lines 45-46: InMemoryJobStore.create_job under the lock,
\* then the record itself is returned
create_job_insert(t) ==
    /\ thr[t].pc = "insert"
    /\ jobs' = [jobs EXCEPT ![thr[t].proc] = Store_create_job(@, thr[t].jid, thr[t].job)]
    /\ thr' = [thr EXCEPT ![t] = Return(@, thr[t].job, "none")]
    /\ UNCHANGED <<heap, clock>>

\* a transition that answers None for a job it does not find instead of raising
mark_get_silent(t, th, p, op, job_id, result, message) ==
    LET job == Store_get_job(jobs[p], job_id) IN
    /\ thr' = [thr EXCEPT ![t] =
                  IF job = 0
                  THEN Return(Call(th, p, op), 0, "none")
                  ELSE [Call(th, p, op) EXCEPT
                           !.pc = "copy", !.jid = job_id, !.result = result,
                           !.message = message, !.job = job]]
    /\ UNCHANGED <<heap, clock, jobs>>

\* mark_processing / mark_completed / mark_failed, first statement:
\* job = job_store.get_job(job_id); if not job: raise KeyError
mark_get(t, th, p, op, job_id, result, message) ==
    LET job == Store_get_job(jobs[p], job_id) IN
    /\ thr' = [thr EXCEPT ![t] =
                  IF job = 0
                  THEN Return(Call(th, p, op), 0, "KeyError")
                  ELSE [Call(th, p, op) EXCEPT
                           !.pc = "copy", !.jid = job_id, !.result = result,
                           !.message = message, !.job = job]]
    /\ UNCHANGED <<heap, clock, jobs>>

\* the copy the transition computes from the record it read
Updated(op, job, result, message, now) ==
    CASE op = "mark_processing" -> with_status(job, "processing", now)
      [] op = "mark_completed" -> with_result(job, result[1], now)
      [] op = "mark_failed" -> with_error(job, message, now)

\* updated = job.with_status(...) / with_result(...) / with_error(...)
mark_copy(t) ==
    /\ thr[t].pc = "copy"
    /\ CanAlloc(t)
    /\ heap' = Append(heap, Updated(thr[t].op, heap[thr[t].job], thr[t].result,
                                    thr[t].message, clock + 1))
    /\ clock' = clock + 1
    /\ thr' = [thr EXCEPT ![t] = [@ EXCEPT !.pc = "update", !.updated = Len(heap) + 1]]
    /\ UNCHANGED jobs

\* job_store.update_job(job_id, updated); return updated
mark_update(t) ==
    /\ thr[t].pc = "update"
    /\ IF Store_update_raises(jobs[thr[t].proc], thr[t].jid)
       THEN /\ thr' = [thr EXCEPT ![t] = Return(@, 0, "KeyError")]
            /\ UNCHANGED jobs
       ELSE /\ jobs' = [jobs EXCEPT ![thr[t].proc] =
                            Store_update_job(@, thr[t].jid, thr[t].updated)]
            /\ thr' = [thr EXCEPT ![t] = Return(@, thr[t].updated, "none")]
    /\ UNCHANGED <<heap, clock>>

\* the record the store of process p holds for job_id, by value
Rec(p, job_id) ==
    IF jobs[p][job_id] = 0 THEN None ELSE Some(heap[jobs[p][job_id]])

----------------------------------------------------------------------------
(* Callers of the store's functions: any thread of the API process may call any
   of them with any arguments *)

\* a thread that is inside no route, task or call (past MaxObjs records only the
\* thread that made every call so far goes on)
CanCall(t) ==
    /\ thr[t].act = "idle" /\ thr[t].pc \in {"idle", "ret"}
    /\ Len(heap) <= MaxObjs \/ Alone(t)

CallCreate(t) ==
    /\ CanCall(t)
    /\ \E j \in JobIds, ty \in JobTypes :
          create_job_construct(t, thr[t], "api", j, ty, PayloadOf(ty))
    /\ UNCHANGED <<eager, broker, used, seen, pureVars>>

CallMarkProcessing(t) ==
    /\ CanCall(t)
    /\ \E j \in JobIds : mark_get(t, thr[t], "api", "mark_processing", j, None, "")
    /\ UNCHANGED <<eager, broker, used, seen, pureVars>>

CallMarkCompleted(t) ==
    /\ CanCall(t)
    /\ \E j \in JobIds, r \in Results : mark_get(t, thr[t], "api", "mark_completed", j, Some(r), "")
    /\ UNCHANGED <<eager, broker, used, seen, pureVars>>

CallMarkFailed(t) ==
    /\ CanCall(t)
    /\ \E j \in JobIds, m \in Messages : mark_get(t, thr[t], "api", "mark_failed", j, None, m)
    /\ UNCHANGED <<eager, broker, used, seen, pureVars>>

\* a lookup by subscript, self._jobs[job_id], which raises for an unknown id
CallGet_raises(t) ==
    /\ CanCall(t)
    /\ \E j \in JobIds :
          thr' = [thr EXCEPT ![t] =
                    Return(Call(@, "api", "get"), Store_get_job(jobs["api"], j),
                           IF jobs["api"][j] = 0 THEN "KeyError" ELSE "none")]
    /\ UNCHANGED <<heap, clock, jobs, eager, broker, used, seen, pureVars>>

\* job_store.job_store.get_job(job_id): the stored object itself, or None
CallGet(t) ==
    /\ CanCall(t)
    /\ \E j \in JobIds :
          thr' = [thr EXCEPT ![t] =
                    Return(Call(@, "api", "get"), Store_get_job(jobs["api"], j), "none")]
    /\ UNCHANGED <<heap, clock, jobs, eager, broker, used, seen, pureVars>>

Insert(t) == create_job_insert(t) /\ UNCHANGED <<eager, broker, used, seen, pureVars>>

Copy(t) == mark_copy(t) /\ UNCHANGED <<eager, broker, used, seen, pureVars>>

Update(t) == mark_update(t) /\ UNCHANGED <<eager, broker, used, seen, pureVars>>

Next ==
    \E t \in Threads :
        \/ CallCreate(t)
        \/ CallMarkProcessing(t)
        \/ CallMarkCompleted(t)
        \/ CallMarkFailed(t)
        \/ CallGet(t)
        \/ Insert(t)
        \/ Copy(t)
        \/ Update(t)

Spec == Init /\ [][Next]_vars

----------------------------------------------------------------------------
(* app/models/image.py, app/models/critical_css.py: request validation *)

HasKey(m, k) == k \in DOMAIN m

\* ImageConversionRequest(**payload): unknown keys are ignored, source_url and
\* target_page_url default to None, ensure_source_or_page rejects a request with
\* neither; formats defaults to ["webp"] and normalize_formats replaces an empty
\* list by it
ImageRequestValid(payload) ==
    \/ HasKey(payload, "source_url") /\ payload.source_url # None
    \/ HasKey(payload, "target_page_url") /\ payload.target_page_url # None

ImageConversionRequest(payload) ==
    [source_url |-> IF HasKey(payload, "source_url") THEN payload.source_url ELSE None,
     target_page_url |-> IF HasKey(payload, "target_page_url")
                         THEN payload.target_page_url ELSE None,
     formats |-> IF HasKey(payload, "formats") /\ payload.formats # <<>>
                 THEN payload.formats ELSE <<"webp">>]

\* CriticalCSSRequest(**payload): target_url and template are required
CssRequestValid(payload) == HasKey(payload, "target_url") /\ HasKey(payload, "template")

----------------------------------------------------------------------------
(* app/services/image_optimizer.py: the conversion pipeline. The outside world
   one run meets is its environment: whether the TinyPNG key is configured,
   whether the source download answers with success, the position in the
   normalized format list at which TinyPNG fails (0: nowhere), and what the hero
   detector returns for the page (None, or a detection) *)

OkEnv == [key |-> TRUE, fetch |-> TRUE, tinify_fail |-> 0, detect |-> Some("hero"),
          original_size |-> 4, optimized_size |-> 3]
Envs ==
    {OkEnv,
     [OkEnv EXCEPT !.key = FALSE],
     [OkEnv EXCEPT !.fetch = FALSE],
     [OkEnv EXCEPT !.tinify_fail = 1],
     [OkEnv EXCEPT !.tinify_fail = 2],
     [OkEnv EXCEPT !.detect = None]}

Raise(error) == [ok |-> FALSE, exc |-> error]
Value(v) == [ok |-> TRUE, value |-> v]

\* an outcome together with the calls to the outside world made on the way to it
Did(calls, outcome) == [calls |-> calls] @@ outcome

\* the calls to the outside world: the detector, the download, TinyPNG
DetectCall == [call |-> "detect", arg |-> "page"]
FetchCall(url) == [call |-> "fetch", arg |-> url]
TinifyCall(fmt) == [call |-> "tinify", arg |-> fmt]

\* a normalization that forgets fmt.lower()
Lower_forgotten(fmt) == fmt

\* str.lower() on the format names in use
Lower(fmt) ==
    CASE fmt \in {"WEBP", "Webp"} -> "webp"
      [] fmt = "PNG" -> "png"
      [] OTHER -> fmt

RECURSIVE Dedupe(_, _)
\* the insertion-ordered keys of `seen` after the loop of lines 143-146
Dedupe(formats, seenFmts) ==
    IF formats = <<>> THEN seenFmts
    ELSE LET f == Lower(Head(formats)) IN
         Dedupe(Tail(formats),
                IF \E i \in 1..Len(seenFmts) : seenFmts[i] = f
                THEN seenFmts ELSE Append(seenFmts, f))

_normalize_formats(formats) ==
    Dedupe(IF formats = <<>> THEN <<"webp">> ELSE formats, <<>>)

\* the round of a non-negative quotient n / d to the nearest integer, halves to
\* the even one
RoundHalfEven(n, d) ==
    LET q == n \div d
        r == n % d
    IN  IF 2 * r > d \/ (2 * r = d /\ q % 2 = 1) THEN q + 1 ELSE q

\* a saving that is not floored at zero: negative when the output is larger
savings_percent_unfloored(original_size, optimized_size) ==
    IF original_size = 0 THEN 0
    ELSE IF optimized_size > original_size
    THEN 0 - RoundHalfEven((optimized_size - original_size) * 1000, original_size)
    ELSE RoundHalfEven((original_size - optimized_size) * 1000, original_size)

\* _process_variant, lines 105-107, in tenths of a percent:
\* round(max(0.0, (1 - optimized_size / original_size) * 100), 1) if original_size
savings_percent(original_size, optimized_size) ==
    IF original_size = 0 THEN 0
    ELSE IF optimized_size > original_size THEN 0
    ELSE RoundHalfEven((original_size - optimized_size) * 1000, original_size)

\* _process_variant(fmt, source_bytes) when TinyPNG answers
_process_variant(fmt, env) ==
    [format |-> fmt, bytes |-> env.optimized_size,
     savings_percent |-> savings_percent(env.original_size, env.optimized_size)]

\* RuntimeError(f"TinyPNG conversion failed ({fmt}): {exc}") for the formats in use
ConversionFailed(fmt) ==
    CASE fmt = "webp" -> "RuntimeError: TinyPNG conversion failed (webp): TinifyError"
      [] fmt = "png" -> "RuntimeError: TinyPNG conversion failed (png): TinifyError"
      [] OTHER -> "RuntimeError: TinyPNG conversion failed (?): TinifyError"

\* a resolution that prefers the page whenever one is given
_resolve_source_page_first(request, env) ==
    IF request.target_page_url # None
    THEN IF env.detect = None
         THEN Did(<<DetectCall>>, Raise("RuntimeError: unable to detect"))
         ELSE Did(<<DetectCall>>, Value([url |-> env.detect[1], detection |-> env.detect]))
    ELSE Did(<<>>, Value([url |-> request.source_url[1], detection |-> None]))

_resolve_source(request, env) ==
    IF request.source_url # None
    THEN Did(<<>>, Value([url |-> request.source_url[1], detection |-> None]))
    ELSE IF request.target_page_url = None
    THEN Did(<<>>, Raise("RuntimeError: no source"))
    ELSE IF env.detect = None
    THEN Did(<<DetectCall>>, Raise("RuntimeError: unable to detect"))
    ELSE Did(<<DetectCall>>, Value([url |-> env.detect[1], detection |-> env.detect]))

RECURSIVE ConvertFrom(_, _, _, _, _)
\* a loop over the normalized formats that goes on after a failed conversion and
\* returns the variants that could be made
ConvertFrom_keeps_going(normalized, i, env, variants, calls) ==
    IF i > Len(normalized) THEN Did(calls, Value(variants))
    ELSE ConvertFrom(normalized, i + 1, env,
                     IF env.tinify_fail = i THEN variants
                     ELSE Append(variants, _process_variant(normalized[i], env)),
                     Append(calls, TinifyCall(normalized[i])))

\* the loop of _perform_conversion from the i-th normalized format on: a
\* TinifyError ends it with a RuntimeError that names the format
ConvertFrom(normalized, i, env, variants, calls) ==
    IF i > Len(normalized) THEN Did(calls, Value(variants))
    ELSE IF env.tinify_fail = i
    THEN Did(Append(calls, TinifyCall(normalized[i])),
             Raise(ConversionFailed(normalized[i])))
    ELSE ConvertFrom(normalized, i + 1, env,
                     Append(variants, _process_variant(normalized[i], env)),
                     Append(calls, TinifyCall(normalized[i])))

_perform_conversion(source_url, formats, env) ==
    IF ~env.key THEN Did(<<>>, Raise("RuntimeError: no TinyPNG key"))
    ELSE IF ~env.fetch THEN Did(<<FetchCall(source_url)>>, Raise("HTTPStatusError"))
    ELSE ConvertFrom(_normalize_formats(formats), 1, env, <<>>, <<FetchCall(source_url)>>)

\* ThirdPartyImageOptimizer.convert followed by result.model_dump(mode="json");
\* every variant's url is a data: URL, so no prefetch tag is built
convert(request, env) ==
    LET source == _resolve_source(request, env) IN
    IF ~source.ok THEN source
    ELSE LET variants == _perform_conversion(source.value.url, request.formats, env) IN
         IF ~variants.ok THEN Did(source.calls \o variants.calls, Raise(variants.exc))
         ELSE Did(source.calls \o variants.calls,
                  Value([optimized_assets |-> variants.value,
                         prefetch_tag |-> None,
                         img_snippet |-> IF variants.value = <<>> THEN None
                                         ELSE Some(variants.value[1].format),
                         detected_image |-> source.value.detection]))

\* CriticalCSSExtractor.extract followed by model_dump: a stub that always answers
extract == Value([critical_css |-> "css"])

\* lines 18-20 of a task after mark_processing: the request is validated, the
\* pipeline runs and its result is serialized
RunPipeline(kind, payload, env) ==
    IF kind = "image"
    THEN IF ImageRequestValid(payload) THEN convert(ImageConversionRequest(payload), env)
         ELSE Raise("ValidationError")
    ELSE IF CssRequestValid(payload) THEN extract ELSE Raise("ValidationError")

\* an exception as the task sees it: its type and the call that raised it
ExcAt(exception, site) == <<exception, site>>

\* str(exc): the message mark_failed records (KeyError's is the quoted key)
StrOf(e) ==
    CASE e[1] = "KeyError" -> "'Job not found'"
      [] OTHER -> e[1]

----------------------------------------------------------------------------
(* app/tasks/image_tasks.py, app/tasks/css_tasks.py: process_image_conversion and
   generate_critical_css, the same body around their own pipeline *)

\* the task starts in process p with the arguments of its message and executes
\* job_store.mark_processing(job_id) up to its read of the store
task_start(t, p, kind, job_id, payload, env) ==
    mark_get(t, [thr[t] EXCEPT !.act = "task", !.kind = kind, !.dpc = "processing",
                               !.tjid = job_id, !.tpayload = Some(payload),
                               !.env = Some(env), !.orig = <<>>, !.prop = <<>>],
             p, "mark_processing", job_id, None, "")

\* except Exception as exc: job_store.mark_failed(job_id, str(exc)), up to its read
task_except(t, e) ==
    mark_get(t, [thr[t] EXCEPT !.dpc = "failing", !.orig = e],
             thr[t].proc, "mark_failed", thr[t].tjid, None, StrOf(e))

\* mark_processing is over: if it raised, the handler runs; otherwise the request
\* is validated, the pipeline runs, and mark_completed (or the handler) starts
task_pipeline(t) ==
    /\ thr[t].act = "task" /\ thr[t].dpc = "processing" /\ thr[t].pc = "ret"
    /\ IF thr[t].exc # "none"
       THEN task_except(t, ExcAt(thr[t].exc, "mark_processing"))
       ELSE LET out == RunPipeline(thr[t].kind, thr[t].tpayload[1], thr[t].env[1]) IN
            IF out.ok
            THEN mark_get(t, [thr[t] EXCEPT !.dpc = "completing"], thr[t].proc,
                          "mark_completed", thr[t].tjid, Some(out.value), "")
            ELSE task_except(t, ExcAt(out.exc, "pipeline"))

\* a task that runs its handler after mark_completed whether it raised or not
task_completed_then_fails(t) ==
    /\ thr[t].act = "task" /\ thr[t].dpc = "completing" /\ thr[t].pc = "ret"
    /\ task_except(t, ExcAt(thr[t].exc, "mark_completed"))

\* mark_completed is over: the task returns result_payload, or the handler runs
task_completed(t) ==
    /\ thr[t].act = "task" /\ thr[t].dpc = "completing" /\ thr[t].pc = "ret"
    /\ IF thr[t].exc # "none"
       THEN task_except(t, ExcAt(thr[t].exc, "mark_completed"))
       ELSE /\ thr' = [thr EXCEPT ![t] = [@ EXCEPT !.act = "idle", !.dpc = "returned"]]
            /\ UNCHANGED <<heap, clock, jobs>>

\* the handler's mark_failed is over: `raise` lets the caught exception out,
\* unless mark_failed raised, and then that exception leaves the task instead
task_raise(t) ==
    /\ thr[t].act = "task" /\ thr[t].dpc = "failing" /\ thr[t].pc = "ret"
    /\ thr' = [thr EXCEPT ![t] =
                  [@ EXCEPT !.act = "idle", !.dpc = "raised",
                            !.prop = IF thr[t].exc = "none" THEN thr[t].orig
                                     ELSE ExcAt(thr[t].exc, "mark_failed")]]
    /\ UNCHANGED <<heap, clock, jobs>>

----------------------------------------------------------------------------
(* app/api/routes/images.py, app/api/routes/critical_css.py and the worker *)

\* the payloads the routes accept and register
RoutePayloads == {<<"image", DirectPayload>>, <<"image", PagePayload>>,
                  <<"image", TwoFormatPayload>>, <<"critical_css", CssPayload>>}

\* enqueue_image_conversion / enqueue_critical_css: a new uuid4 job id, then
\* job_store.create_job up to the construction of the record
Enqueue(t) ==
    /\ CanCall(t)
    /\ \E j \in JobIds \ used, kp \in RoutePayloads :
          /\ used' = used \cup {j}
          /\ create_job_construct(t, [thr[t] EXCEPT !.act = "enqueue", !.kind = kp[1],
                                         !.dpc = "none", !.tjid = j,
                                         !.tpayload = Some(kp[2]), !.env = None,
                                         !.orig = <<>>, !.prop = <<>>],
                                  "api", j, kp[1], kp[2])
    /\ UNCHANGED <<eager, broker, seen, pureVars>>

\* a route that hands the task over before create_job has stored the record
EnqueueDelay_before_create(t) ==
    /\ thr[t].act = "enqueue" /\ thr[t].pc = "insert"
    /\ IF eager
       THEN /\ \E env \in Envs :
                  task_start(t, "api", thr[t].kind, thr[t].tjid, thr[t].tpayload[1], env)
            /\ UNCHANGED broker
       ELSE /\ broker' = Append(broker, [kind |-> thr[t].kind, job_id |-> thr[t].tjid,
                                         payload |-> thr[t].tpayload[1]])
            /\ thr' = [thr EXCEPT ![t] = [@ EXCEPT !.act = "idle"]]
            /\ UNCHANGED <<heap, clock, jobs>>
    /\ UNCHANGED <<eager, used, seen, pureVars>>

\* <task>.delay(job_id=..., payload=...): with task_always_eager the task body runs
\* here, in the request's thread and process; otherwise the message goes to the
\* broker and the route answers 202
EnqueueDelay(t) ==
    /\ thr[t].act = "enqueue" /\ thr[t].pc = "ret"
    /\ IF eager
       THEN /\ \E env \in Envs :
                  task_start(t, "api", thr[t].kind, thr[t].tjid, thr[t].tpayload[1], env)
            /\ UNCHANGED broker
       ELSE /\ broker' = Append(broker, [kind |-> thr[t].kind, job_id |-> thr[t].tjid,
                                         payload |-> thr[t].tpayload[1]])
            /\ thr' = [thr EXCEPT ![t] = [@ EXCEPT !.act = "idle"]]
            /\ UNCHANGED <<heap, clock, jobs>>
    /\ UNCHANGED <<eager, used, seen, pureVars>>

\* a worker process takes the next message and runs the task named in it
WorkerTake(t) ==
    /\ CanCall(t)
    /\ broker # <<>>
    /\ broker' = Tail(broker)
    /\ \E env \in Envs :
          task_start(t, "worker", Head(broker).kind, Head(broker).job_id,
                     Head(broker).payload, env)
    /\ UNCHANGED <<eager, used, seen, pureVars>>

TaskPipeline(t) == task_pipeline(t) /\ UNCHANGED <<eager, broker, used, seen, pureVars>>

TaskCompleted(t) == task_completed(t) /\ UNCHANGED <<eager, broker, used, seen, pureVars>>

TaskRaise(t) == task_raise(t) /\ UNCHANGED <<eager, broker, used, seen, pureVars>>

\* get_image_job / get_critical_css_job for a job id a client was given: 404 when
\* the API's store has no record, else the record's status
GetStatus ==
    /\ \E j \in used :
          seen' = [seen EXCEPT ![j] = IF Rec("api", j) = None THEN "404"
                                      ELSE Rec("api", j)[1].status]
    /\ UNCHANGED <<heap, clock, jobs, thr, eager, broker, used, pureVars>>

InitApp ==
    /\ heap = <<>>
    /\ clock = 0
    /\ jobs = [p \in Procs |-> [j \in JobIds |-> 0]]
    /\ thr = [t \in Threads |-> IdleThread]
    /\ eager \in BOOLEAN
    /\ broker = <<>>
    /\ used = {}
    /\ seen = [j \in JobIds |-> "none"]
    /\ det = NoPass
    /\ norm = NoCall
    /\ pipe = NoRun

NextApp ==
    \/ \E t \in Threads :
          \/ Enqueue(t)
          \/ EnqueueDelay(t)
          \/ WorkerTake(t)
          \/ TaskPipeline(t)
          \/ TaskCompleted(t)
          \/ TaskRaise(t)
          \/ Insert(t)
          \/ Copy(t)
          \/ Update(t)
    \/ GetStatus

SpecApp == InitApp /\ [][NextApp]_vars

----------------------------------------------------------------------------
(* The store's contract *)

Terminal == {"completed", "failed"}

\* thread t executes the store's critical section of create_job in this step
InsertStep(t) == thr[t].pc = "insert" /\ thr'[t].pc = "ret"

\* thread t executes update_job, the write of a transition, in this step
UpdateStep(t) == thr[t].pc = "update" /\ thr'[t].pc = "ret"

\* C1: create_job with a job_id the store already holds fails with
\* DuplicateJobError and leaves the stored record as it was.
C1_DuplicateCreateFails ==
    [][\A t \in Threads, p \in Procs, j \in JobIds :
          (InsertStep(t) /\ thr[t].proc = p /\ thr[t].jid = j /\ jobs[p][j] # 0)
              => /\ thr'[t].exc = "DuplicateJobError"
                 /\ Rec(p, j)' = Rec(p, j)]_vars

\* two create_job calls for one id that overlap in time: `first` built its record
\* before `second` did, and `second` has already returned successfully
Overlapping(first, second) ==
    /\ first # second
    /\ thr[first].op = "create" /\ thr[first].pc = "insert"
    /\ thr[second].op = "create" /\ thr[second].pc = "ret"
    /\ thr[second].exc = "none" /\ thr[second].ret # 0
    /\ heap[thr[second].ret].job_id = thr[first].jid
    /\ heap[thr[first].job].created_at < heap[thr[second].ret].created_at

\* C2: of the create_job calls made concurrently for one job_id exactly one
\* succeeds: a call that reaches the store after a concurrent one has succeeded
\* fails with DuplicateJobError, and the store keeps the winner's record.
C2_ConcurrentCreateOneWinner ==
    [][\A t \in Threads :
          (InsertStep(t) /\ \E w \in Threads : Overlapping(t, w))
              => /\ thr'[t].exc = "DuplicateJobError"
                 /\ jobs' = jobs]_vars

\* C3: once a stored record is completed or failed, no step of any caller
\* changes its status, result or error.
C3_TerminalAbsorbing ==
    [][\A j \in JobIds :
          (Rec("api", j) # None /\ Rec("api", j)[1].status \in Terminal)
              => /\ Rec("api", j)' # None
                 /\ Rec("api", j)'[1].status = Rec("api", j)[1].status
                 /\ Rec("api", j)'[1].result = Rec("api", j)[1].result
                 /\ Rec("api", j)'[1].error = Rec("api", j)[1].error]_vars

\* C4: mark_completed or mark_failed on a job whose stored status is already
\* completed or failed fails with InvalidTransitionError, so one terminal write
\* at most is applied per job_id.
C4_SingleTerminalWrite ==
    [][\A t \in Threads :
          (/\ UpdateStep(t)
           /\ thr[t].op \in {"mark_completed", "mark_failed"}
           /\ Rec(thr[t].proc, thr[t].jid) # None
           /\ Rec(thr[t].proc, thr[t].jid)[1].status \in Terminal)
              => /\ thr'[t].exc = "InvalidTransitionError"
                 /\ jobs' = jobs]_vars

\* C5: every stored record has at most one of result and error set: a completed
\* record has no error and a failed record has no result.
C5_ResultXorError ==
    \A j \in JobIds :
        Rec("api", j) # None =>
            LET r == Rec("api", j)[1] IN
            /\ r.result = None \/ r.error = None
            /\ r.status = "completed" => r.error = None
            /\ r.status = "failed" => r.result = None

\* the record stored for the job thread t is about to write was put there by a
\* transition (create_job stores queued records only) after t read the store
Superseded(t) ==
    /\ jobs[thr[t].proc][thr[t].jid] # thr[t].job
    /\ jobs[thr[t].proc][thr[t].jid] # 0
    /\ heap[jobs[thr[t].proc][thr[t].jid]].status # "queued"

\* C6: a transition's read-modify-write is atomic: when it writes, no other
\* transition has replaced the record it computed its update from (no lost
\* update).
C6_NoLostUpdate ==
    [][\A t \in Threads : UpdateStep(t) => ~Superseded(t)]_vars

\* C10: create_job with a job_id the store does not hold inserts a record in
\* status queued with the given job_type and payload and no result or error,
\* and a get_job that follows returns that record.
C10_CreateInsertsQueued ==
    [][\A t \in Threads :
          (InsertStep(t) /\ jobs[thr[t].proc][thr[t].jid] = 0)
              => LET got == Store_get_job(jobs'[thr[t].proc], thr[t].jid) IN
                 /\ thr'[t].exc = "none"
                 /\ got # 0
                 /\ got = thr'[t].ret
                 /\ heap'[got].job_id = thr[t].jid
                 /\ heap'[got].status = "queued"
                 /\ heap'[got].job_type = thr[t].jtype
                 /\ Some(heap'[got].payload) = thr[t].payload
                 /\ heap'[got].result = None
                 /\ heap'[got].error = None]_vars

\* a create_job of a new id has returned and the store holds what it returned
C10_Witness ==
    \E t \in Threads :
        /\ thr[t].op = "create" /\ thr[t].pc = "ret" /\ thr[t].ret # 0
        /\ Cardinality({j \in JobIds : jobs["api"][j] # 0}) = 1
        /\ jobs["api"][heap[thr[t].ret].job_id] = thr[t].ret
        /\ Len(heap) = 1

----------------------------------------------------------------------------
(* Callers that write to a record they were handed *)

\* a caller assigns to the status field of the JobMetadata a call returned to it
\* (the model is not frozen); followed in runs of fewer than MaxObjs records
MutateHeld(t) ==
    /\ CanCall(t)
    /\ Len(heap) < MaxObjs
    /\ thr[t].pc = "ret" /\ thr[t].ret # 0
    /\ heap[thr[t].ret].status # "failed"
    /\ heap' = [heap EXCEPT ![thr[t].ret].status = "failed"]
    /\ UNCHANGED <<clock, jobs, thr, eager, broker, used, seen, pureVars>>

NextSnap ==
    \E t \in Threads :
        \/ CallCreate(t)
        \/ CallMarkProcessing(t)
        \/ CallMarkCompleted(t)
        \/ CallMarkFailed(t)
        \/ CallGet(t)
        \/ Insert(t)
        \/ Copy(t)
        \/ Update(t)
        \/ MutateHeld(t)

SpecSnap == Init /\ [][NextSnap]_vars

\* some existing object is written to in this step
HeapWritten == \E r \in 1..Len(heap) : heap'[r] # heap[r]

\* C7: a record handed to a caller is an independent snapshot: a step of the
\* store never changes a record a caller holds, and a caller's write to the
\* record it holds never changes what the store returns for any job_id.
C7_SnapshotIndependent ==
    [][/\ ~HeapWritten =>
             \A t \in Threads :
                 (thr[t].pc = "ret" /\ thr[t].ret # 0 /\ thr'[t] = thr[t])
                     => heap'[thr[t].ret] = heap[thr[t].ret]
       /\ HeapWritten => \A j \in JobIds : Rec("api", j)' = Rec("api", j)]_vars

----------------------------------------------------------------------------
(* The dispatchers and the end-to-end path *)

\* C8: when a run of either task raises, the job's record is failed with the
\* message of the exception recorded by the time the exception leaves the task,
\* and the exception that leaves is the one that was raised.
C8_FailedRecordedBeforeRaise ==
    \A t \in Threads :
        thr[t].dpc = "raised" =>
            /\ Rec(thr[t].proc, thr[t].tjid) # None
            /\ Rec(thr[t].proc, thr[t].tjid)[1].status = "failed"
            /\ Rec(thr[t].proc, thr[t].tjid)[1].error = Some(StrOf(thr[t].orig))
            /\ thr[t].prop = thr[t].orig

\* the order the statuses are passed through ("none": never polled, "404": the
\* route found no record)
Rank(status) ==
    CASE status \in {"none", "404"} -> 0
      [] status = "queued" -> 1
      [] status = "processing" -> 2
      [] status = "completed" -> 3
      [] OTHER -> 4

\* thread t runs, or has run, the task of a job enqueued with a direct
\* source_url, in a world where the download and the conversion succeed
DirectRun(t) ==
    /\ thr[t].kind = "image"
    /\ thr[t].dpc \in {"processing", "completing", "failing", "returned", "raised"}
    /\ thr[t].tpayload = Some(DirectPayload)
    /\ thr[t].env = Some(OkEnv)

DirectRunOver(t) == DirectRun(t) /\ thr[t].dpc \in {"returned", "raised"}

\* the API's record of the job is completed with exactly one optimized variant
CompletedWithOneVariant(j) ==
    /\ Rec("api", j) # None
    /\ Rec("api", j)[1].status = "completed"
    /\ Rec("api", j)[1].result # None
    /\ Len(Rec("api", j)[1].result[1].optimized_assets) = 1

\* what C9 asks of one step
DirectJobStep ==
    \A t \in Threads :
        /\ (DirectRun(t) /\ DirectRun(t)')
               => /\ Rank(seen'[thr[t].tjid]) >= Rank(seen[thr[t].tjid])
                  /\ seen'[thr[t].tjid] # "failed"
        /\ DirectRunOver(t)' => CompletedWithOneVariant(thr[t].tjid)'

\* C9: an image job enqueued with a direct source_url whose download and
\* conversion succeed is seen through the status route as queued, then
\* processing, then completed, never backwards, and once its run is over it is
\* completed with exactly one optimized variant.
C9_DirectJobCompletes == [][DirectJobStep]_vars

----------------------------------------------------------------------------
(* The store's contract, continued: unknown ids, transitions, what a record keeps *)

MarkOps == {"mark_processing", "mark_completed", "mark_failed"}

\* thread t, inside no call, enters one of the three transitions in this step
MarkCall(t) == CanCall(t) /\ thr'[t] # thr[t] /\ thr'[t].op \in MarkOps

\* thread t, inside no call, executes get_job in this step
GetCall(t) == CanCall(t) /\ thr'[t] # thr[t] /\ thr'[t].op = "get"

\* C11: mark_processing, mark_completed and mark_failed called with a job_id the
\* store does not hold fail with the not-found error (KeyError) and leave the
\* store as it was: a transition goes on to its copy only for an id the store
\* holds, and otherwise it is over at once, has raised, and no record has been
\* created or modified.
C11_UnknownIdFails ==
    [][\A t \in Threads :
          MarkCall(t) =>
              IF thr'[t].pc = "copy"
              THEN jobs[thr'[t].proc][thr'[t].jid] # 0
              ELSE /\ thr'[t].pc = "ret"
                   /\ thr'[t].exc = "KeyError"
                   /\ thr'[t].ret = 0
                   /\ jobs' = jobs
                   /\ heap' = heap]_vars

\* a transition on an unknown id has raised while the store holds another job
C11_Witness ==
    \E t \in Threads :
        /\ thr[t].op \in MarkOps /\ thr[t].pc = "ret" /\ thr[t].exc = "KeyError"
        /\ \E j, k \in JobIds : jobs["api"][j] # 0 /\ jobs["api"][k] = 0

C13_ProcessingOnlyFromLive ==
    [][\A t \in Threads, p \in Procs, j \in JobIds :
          (/\ UpdateStep(t)
           /\ thr[t].op = "mark_processing"
           /\ thr[t].proc = p /\ thr[t].jid = j
           /\ Rec(p, j) # None)
              => IF Rec(p, j)[1].status \in {"queued", "processing"}
                 THEN /\ thr'[t].exc = "none"
                      /\ Rec(p, j)'[1].status = "processing"
                 ELSE /\ thr'[t].exc = "InvalidTransitionError"
                      /\ Rec(p, j)' = Rec(p, j)]_vars

\* C14: mark_completed on a job in queued or processing leaves the stored record
\* completed, with the result given to the call and with no error.
C14_CompletedClearsError ==
    [][\A t \in Threads, p \in Procs, j \in JobIds :
          (/\ UpdateStep(t)
           /\ thr[t].op = "mark_completed"
           /\ thr[t].proc = p /\ thr[t].jid = j
           /\ Rec(p, j) # None
           /\ Rec(p, j)[1].status \in {"queued", "processing"})
              => /\ thr'[t].exc = "none"
                 /\ Rec(p, j)'[1].status = "completed"
                 /\ Rec(p, j)'[1].result = thr[t].result
                 /\ Rec(p, j)'[1].error = None]_vars

\* C15: every stored record in status failed carries a non-empty error string,
\* and a failed job stays in the store, failed, for ever: its record is never
\* removed and never replaced by one in another status.
C15_FailedStaysFailed ==
    [][\A j \in JobIds :
          /\ (Rec("api", j)' # None /\ Rec("api", j)'[1].status = "failed")
                 => Rec("api", j)'[1].error \notin {None, Some("")}
          /\ (Rec("api", j) # None /\ Rec("api", j)[1].status = "failed")
                 => /\ Rec("api", j)' # None
                    /\ Rec("api", j)'[1].status = "failed"]_vars

\* C16: the write of a transition always makes the updated_at of the record
\* stored for its job larger, never smaller, also when the transitions of several
\* threads interleave (stated for the writes that replace a record a transition
\* wrote: create_job stores queued records only).
C16_UpdatedAtAdvances ==
    [][\A t \in Threads, p \in Procs, j \in JobIds :
          (/\ UpdateStep(t)
           /\ thr[t].proc = p /\ thr[t].jid = j
           /\ thr'[t].exc = "none"
           /\ Rec(p, j) # None
           /\ Rec(p, j)[1].status # "queued")
              => Rec(p, j)'[1].updated_at > Rec(p, j)[1].updated_at]_vars

\* C17: the job_id, job_type and payload the store holds for a job stay the ones
\* given when the job was created, whatever is called afterwards.
C17_IdentityFieldsKept ==
    [][\A j \in JobIds :
          Rec("api", j) # None
              => /\ Rec("api", j)' # None
                 /\ Rec("api", j)'[1].job_id = Rec("api", j)[1].job_id
                 /\ Rec("api", j)'[1].job_type = Rec("api", j)[1].job_type
                 /\ Rec("api", j)'[1].payload = Rec("api", j)[1].payload]_vars

----------------------------------------------------------------------------
(* app/services/mobile_hero_detector.py: one detection pass, from the loaded
   page to the candidate it returns. An element is what the page script
   measures of an img: the top of its bounding rectangle and the area of it
   inside the viewport; the other tests of the script (size, src) are taken as
   passed *)

storeVars == <<heap, clock, jobs, thr, eager, broker, used, seen>>

Areas == {9000, 10000, 11250}
Tops == {-40, 0, 50}

\* the img elements a page may hold: shown ones, and one below the viewport
Elements == [top : Tops, visible_area : Areas] \cup {[top |-> 900, visible_area |-> 0]}

\* the elements of a page in document order
Pages == UNION {[1..n -> Elements] : n \in 0..MaxImages}

\* a score that charges the signed top, so that an image starting above the
\* viewport gains from it
Score_signed_top(visible_area, top) == visible_area - top * 25

\* topPenalty = Math.max(rect.top, 0); score = visibleArea - topPenalty * 25
Score(visible_area, top) == visible_area - (IF top > 0 THEN top ELSE 0) * 25

RECURSIVE CollectFrom(_, _, _)
\* the loop of the page script over the elements from the i-th on: an element
\* without visible area is skipped, the others are pushed with their score
CollectFrom(images, i, results) ==
    IF i > Len(images) THEN results
    ELSE CollectFrom(images, i + 1,
                     IF images[i].visible_area = 0 THEN results
                     ELSE Append(results,
                                 [src |-> i, top |-> images[i].top,
                                  visible_area |-> images[i].visible_area,
                                  score |-> Score(images[i].visible_area,
                                                  images[i].top)]))

\* _collect_candidates(page): the candidates in document order, src being the
\* position of the element in the page
_collect_candidates(images) == CollectFrom(images, 1, <<>>)

RECURSIVE MaxFrom(_, _, _)
\* the scan of max(): a later item replaces the best one only if its key is
\* strictly greater
MaxFrom(candidates, i, best) ==
    IF i > Len(candidates) THEN best
    ELSE MaxFrom(candidates, i + 1,
                 IF candidates[i].score > best.score THEN candidates[i] ELSE best)

\* a selection that lets the last of the best-scored candidates win
MaxByScore_last_wins(candidates) ==
    candidates[CHOOSE i \in 1..Len(candidates) :
                  /\ \A k \in 1..Len(candidates) : candidates[k].score <= candidates[i].score
                  /\ \A k \in (i + 1)..Len(candidates) :
                        candidates[k].score < candidates[i].score]

\* max(candidates, key=lambda c: c.score), candidates not empty
MaxByScore(candidates) == MaxFrom(candidates, 2, candidates[1])

\* the step of a pass at which the outside world fails it, if any: the launch of
\* the browser, the creation of the context or of the page, the navigation (a
\* timeout), the page script
Faults == {"none", "launch", "new_context", "new_page", "goto", "collect"}

\* what each failure raises
FaultError(fault) == IF fault = "goto" THEN "PlaywrightTimeoutError" ELSE "Error"

\* with sync_playwright() as p; browser = playwright.chromium.launch(headless=True)
DetectLaunch ==
    /\ det.phase = "start"
    /\ det' = IF det.fault = "launch"
              THEN [det EXCEPT !.phase = "raised", !.playwright = "running",
                               !.exc = FaultError(det.fault)]
              ELSE [det EXCEPT !.phase = "launched", !.playwright = "running",
                               !.browser = "open"]
    /\ UNCHANGED <<storeVars, norm, pipe>>

\* context = browser.new_context(...), before the try statement
DetectNewContext ==
    /\ det.phase = "launched"
    /\ det' = IF det.fault = "new_context"
              THEN [det EXCEPT !.phase = "raised", !.exc = FaultError(det.fault)]
              ELSE [det EXCEPT !.phase = "context", !.context = "open"]
    /\ UNCHANGED <<storeVars, norm, pipe>>

\* try: page = context.new_page(); page.goto(...); page.wait_for_timeout(1500)
DetectLoad ==
    /\ det.phase = "context"
    /\ det' = IF det.fault \in {"new_page", "goto"}
              THEN [det EXCEPT !.phase = "failed", !.exc = FaultError(det.fault)]
              ELSE [det EXCEPT !.phase = "loaded"]
    /\ UNCHANGED <<storeVars, norm, pipe>>

\* candidates = self._collect_candidates(page)
DetectCollect ==
    /\ det.phase = "loaded"
    /\ det' = IF det.fault = "collect"
              THEN [det EXCEPT !.phase = "failed", !.exc = FaultError(det.fault)]
              ELSE [det EXCEPT !.phase = "first", !.collections = 1,
                               !.candidates = _collect_candidates(det.images)]
    /\ UNCHANGED <<storeVars, norm, pipe>>

\* a pass that scrolls and collects again whatever the first collection gave
DetectRetry_always ==
    /\ det.phase = "first"
    /\ \E scrolled \in Pages :
          det' = [det EXCEPT !.phase = "second", !.collections = 2,
                             !.images = scrolled,
                             !.candidates = _collect_candidates(scrolled)]
    /\ UNCHANGED <<storeVars, norm, pipe>>

\* if not candidates: the page is scrolled by a quarter of the viewport, which
\* changes what is on screen, and the candidates are collected again
DetectRetry ==
    /\ det.phase = "first" /\ det.candidates = <<>>
    /\ \E scrolled \in Pages :
          det' = [det EXCEPT !.phase = "second", !.collections = 2,
                             !.images = scrolled,
                             !.candidates = _collect_candidates(scrolled)]
    /\ UNCHANGED <<storeVars, norm, pipe>>

\* if not candidates: return None; best = max(candidates, key=...)
DetectSelect ==
    /\ \/ det.phase = "first" /\ det.candidates # <<>>
       \/ det.phase = "second"
    /\ det' = [det EXCEPT !.phase = "done",
                          !.best = IF det.candidates = <<>> THEN None
                                   ELSE Some(MaxByScore(det.candidates))]
    /\ UNCHANGED <<storeVars, norm, pipe>>

\* finally: context.close(); browser.close(), on the way out of the try
\* statement with the value to return or with the exception raised inside it
DetectFinally ==
    /\ det.phase \in {"done", "failed"}
    /\ det' = [det EXCEPT !.phase = IF det.phase = "done" THEN "leaving" ELSE "raised",
                          !.context = "closed", !.browser = "closed"]
    /\ UNCHANGED <<storeVars, norm, pipe>>

\* detect: the with statement is left, which stops Playwright, and the value of
\* the pass is returned; PlaywrightTimeoutError and any other exception are
\* logged and None is returned
DetectReturn ==
    /\ det.phase \in {"leaving", "raised"}
    /\ det' = [det EXCEPT !.phase = "returned", !.playwright = "stopped",
                          !.returned = IF det.phase = "leaving" THEN det.best ELSE None]
    /\ UNCHANGED <<storeVars, norm, pipe>>

InitDetect ==
    /\ heap = <<>>
    /\ clock = 0
    /\ jobs = [p \in Procs |-> [j \in JobIds |-> 0]]
    /\ thr = [t \in Threads |-> IdleThread]
    /\ eager = TRUE
    /\ broker = <<>>
    /\ used = {}
    /\ seen = [j \in JobIds |-> "none"]
    /\ \E images \in Pages, fault \in Faults :
          det = [NoPass EXCEPT !.phase = "start", !.images = images, !.fault = fault]
    /\ norm = NoCall
    /\ pipe = NoRun

NextDetect ==
    \/ DetectLaunch
    \/ DetectNewContext
    \/ DetectLoad
    \/ DetectCollect
    \/ DetectRetry
    \/ DetectSelect
    \/ DetectFinally
    \/ DetectReturn

SpecDetect == InitDetect /\ [][NextDetect]_vars

----------------------------------------------------------------------------
(* app/services/image_optimizer.py, _normalize_formats on its own: the list a
   request names, written in any case, and the list the conversion loops over *)

FormatNames == {"webp", "WEBP", "Webp", "png", "PNG"}

FormatLists == UNION {[1..n -> FormatNames] : n \in 0..MaxFormats}

\* the payload of a request that names `formats` (None: the key is missing)
FormatsPayload(formats) ==
    IF formats = None THEN [source_url |-> Some("img")]
    ELSE [source_url |-> Some("img"), formats |-> formats[1]]

\* _perform_conversion: self._normalize_formats(request.formats), the request
\* having been validated
NormalizeRequest ==
    /\ norm.phase = "called"
    /\ norm' = [norm EXCEPT
                   !.phase = "request",
                   !.normalized = _normalize_formats(
                       ImageConversionRequest(FormatsPayload(norm.formats)).formats)]
    /\ UNCHANGED <<storeVars, det, pipe>>

\* _normalize_formats(formats) applied to the list as it is
NormalizeList ==
    /\ norm.phase = "called" /\ norm.formats # None
    /\ norm' = [norm EXCEPT !.phase = "direct",
                            !.normalized = _normalize_formats(norm.formats[1])]
    /\ UNCHANGED <<storeVars, det, pipe>>

InitFormats ==
    /\ heap = <<>>
    /\ clock = 0
    /\ jobs = [p \in Procs |-> [j \in JobIds |-> 0]]
    /\ thr = [t \in Threads |-> IdleThread]
    /\ eager = TRUE
    /\ broker = <<>>
    /\ used = {}
    /\ seen = [j \in JobIds |-> "none"]
    /\ det = NoPass
    /\ \E formats \in {None} \cup {Some(l) : l \in FormatLists} :
          norm = [NoCall EXCEPT !.phase = "called", !.formats = formats]
    /\ pipe = NoRun

NextFormats == NormalizeRequest \/ NormalizeList

SpecFormats == InitFormats /\ [][NextFormats]_vars

----------------------------------------------------------------------------
(* The detection heuristic and the format list *)

\* position i holds a best-scored candidate and no earlier position does
EarliestBest(candidates, i) ==
    /\ \A k \in 1..Len(candidates) : candidates[k].score <= candidates[i].score
    /\ \A k \in 1..(i - 1) : candidates[k].score < candidates[i].score

\* C18: from a non-empty candidate list the pass returns a candidate of maximal
\* score, and of several with that score the earliest in the list; the list
\* alone fixes the winner.
C18_EarliestMaxWins ==
    (det.phase = "done" /\ det.candidates # <<>>)
        => /\ det.best # None
           /\ \E i \in 1..Len(det.candidates) :
                 /\ det.best[1] = det.candidates[i]
                 /\ EarliestBest(det.candidates, i)
           /\ \A i \in 1..Len(det.candidates) :
                 EarliestBest(det.candidates, i) => det.best[1].src = det.candidates[i].src

\* a pass is over in which two candidates tie for the best score and the
\* earlier one was returned
C18_Witness ==
    /\ det.phase = "done" /\ det.best # None
    /\ \E i, k \in 1..Len(det.candidates) :
          /\ i < k
          /\ det.candidates[i].score = det.candidates[k].score
          /\ det.best[1] = det.candidates[i]

\* the two candidates of the example: area 10000 at the top of the viewport,
\* area 9000 fifty pixels down
ExamplePage == <<[top |-> 0, visible_area |-> 10000], [top |-> 50, visible_area |-> 9000]>>

\* C19: a candidate's score is its visible area less 25 for every pixel its top
\* lies below the top of the viewport, and its visible area itself when its top
\* is at or above it; the candidates (10000, top 0) and (9000, top 50) score
\* 10000 and 7750 and the first is returned.
C19_ScoreFormula ==
    /\ \A i \in 1..Len(det.candidates) :
          LET c == det.candidates[i] IN
          /\ c.top <= 0 => c.score = c.visible_area
          /\ c.top > 0 => c.score = c.visible_area - 25 * c.top
    /\ (det.phase = "done" /\ det.images = ExamplePage)
           => /\ Len(det.candidates) = 2
              /\ det.candidates[1].score = 10000
              /\ det.candidates[2].score = 7750
              /\ det.best # None
              /\ det.best[1].src = 1

\* the pass over the example page is over
C19_Witness ==
    /\ det.phase = "done" /\ det.images = ExamplePage
    /\ det.best = Some(det.candidates[1])

\* the lower-case spelling of a format name, by enumeration
Canonical(fmt) == IF fmt \in {"webp", "WEBP", "Webp"} THEN "webp" ELSE "png"

\* the list _normalize_formats was given, after `formats or ["webp"]`
Requested ==
    IF norm.formats = None \/ norm.formats = Some(<<>>) THEN <<"webp">>
    ELSE norm.formats[1]

\* the first position of the list at which a spelling of format f stands
FirstAt(list, f) ==
    CHOOSE i \in 1..Len(list) :
        /\ Canonical(list[i]) = f
        /\ \A k \in 1..(i - 1) : Canonical(list[k]) # f

\* C20: _normalize_formats returns the requested formats in lower case, each
\* once, in the order of their first occurrences, whatever their case; an empty
\* or missing list gives [webp]; normalizing the output again changes nothing;
\* [webp, WEBP, png] gives [webp, png].
C20_NormalizeFormats ==
    norm.phase \in {"request", "direct"} =>
        LET out == norm.normalized IN
        /\ {out[i] : i \in 1..Len(out)} = {Canonical(Requested[i]) : i \in 1..Len(Requested)}
        /\ \A i, k \in 1..Len(out) : i < k =>
              /\ out[i] # out[k]
              /\ FirstAt(Requested, out[i]) < FirstAt(Requested, out[k])
        /\ (norm.formats \in {None, Some(<<>>)}) => out = <<"webp">>
        /\ _normalize_formats(out) = out
        /\ norm.formats = Some(<<"webp", "WEBP", "png">>) => out = <<"webp", "png">>

\* the list [webp, WEBP, png] has been normalized
C20_Witness ==
    /\ norm.phase = "direct"
    /\ norm.formats = Some(<<"webp", "WEBP", "png">>)
    /\ norm.normalized = <<"webp", "png">>

----------------------------------------------------------------------------
(* app/services/image_optimizer.py, convert on its own: one validated request in
   one world *)

\* the format lists of the requests followed here
PipeFormats == {<<"webp">>, <<"webp", "png">>, <<"WEBP", "png", "webp">>}

\* the requests ensure_source_or_page lets through: a direct source, a page to
\* detect the image on, or both
PipePayloads ==
    {[source_url |-> su, target_page_url |-> pu, formats |-> fs] :
        su \in {None, Some("img")}, pu \in {None, Some("page")}, fs \in PipeFormats}
    \ {[source_url |-> None, target_page_url |-> None, formats |-> fs] : fs \in PipeFormats}

\* the worlds a run may meet
PipeEnvs ==
    [key : BOOLEAN, fetch : BOOLEAN, tinify_fail : 0..MaxFormats,
     detect : {None, Some("hero")},
     original_size : 0..MaxBytes, optimized_size : 0..MaxBytes]

\* image_optimizer.convert(ImageConversionRequest(**payload))
PipeConvert ==
    /\ pipe.phase = "called"
    /\ pipe' = [pipe EXCEPT
                   !.phase = "returned",
                   !.out = Some(convert(ImageConversionRequest(pipe.payload[1]),
                                        pipe.env[1]))]
    /\ UNCHANGED <<storeVars, det, norm>>

InitPipe ==
    /\ heap = <<>>
    /\ clock = 0
    /\ jobs = [p \in Procs |-> [j \in JobIds |-> 0]]
    /\ thr = [t \in Threads |-> IdleThread]
    /\ eager = TRUE
    /\ broker = <<>>
    /\ used = {}
    /\ seen = [j \in JobIds |-> "none"]
    /\ det = NoPass
    /\ norm = NoCall
    /\ \E payload \in PipePayloads, env \in PipeEnvs :
          pipe = [NoRun EXCEPT !.phase = "called", !.payload = Some(payload),
                               !.env = Some(env)]

NextPipe == PipeConvert

SpecPipe == InitPipe /\ [][NextPipe]_vars

----------------------------------------------------------------------------
(* The conversion pipeline *)

\* the run of convert is over and returned a result
PipeOk == pipe.phase = "returned" /\ pipe.out[1].ok

\* C21: for all byte sizes of the source and of a converted image the
\* savings_percent of every variant lies between 0 and 100 (here in tenths of a
\* percent: 0 and 1000); it is 0 when the source is empty and 0 when the
\* converted image is not smaller than the source.
C21_SavingsInRange ==
    PipeOk =>
        \A i \in 1..Len(pipe.out[1].value.optimized_assets) :
            LET v == pipe.out[1].value.optimized_assets[i]
                env == pipe.env[1]
            IN  /\ v.savings_percent >= 0
                /\ v.savings_percent <= 1000
                /\ env.original_size = 0 => v.savings_percent = 0
                /\ env.optimized_size >= env.original_size => v.savings_percent = 0

\* a conversion has returned a variant larger than its non-empty source
C21_Witness ==
    /\ PipeOk
    /\ pipe.env[1].original_size > 0
    /\ pipe.env[1].optimized_size > pipe.env[1].original_size
    /\ pipe.out[1].value.optimized_assets # <<>>
    /\ pipe.out[1].value.optimized_assets[1].savings_percent = 0

\* the calls the run of convert made
PipeCalls == pipe.out[1].calls

\* C22: a request with a direct source_url is converted from that url and no
\* detection pass is run for it, also when it names a target_page_url as well;
\* a result carries detection metadata exactly when the source was found by a
\* detection pass.
C22_DirectSourceSkipsDetection ==
    pipe.phase = "returned" =>
        /\ pipe.payload[1].source_url # None
              => \A i \in 1..Len(PipeCalls) :
                    /\ PipeCalls[i] # DetectCall
                    /\ PipeCalls[i].call = "fetch"
                          => PipeCalls[i].arg = pipe.payload[1].source_url[1]
        /\ pipe.out[1].ok
              => /\ (pipe.out[1].value.detected_image # None)
                        <=> (\E i \in 1..Len(PipeCalls) : PipeCalls[i] = DetectCall)
                 /\ (pipe.out[1].value.detected_image # None)
                        <=> (pipe.payload[1].source_url = None)

\* a request naming both a source and a page has been converted
C22_Witness ==
    /\ PipeOk
    /\ pipe.payload[1].source_url # None
    /\ pipe.payload[1].target_page_url # None
    /\ pipe.out[1].value.detected_image = None
    /\ \E i \in 1..Len(PipeCalls) : PipeCalls[i].call = "fetch"

\* C23, the pipeline's part: when the request has no source_url and the detector
\* returns nothing, convert raises the detection failure and has made no
\* download and no conversion call.
DetectionFailsFirst ==
    (/\ pipe.phase = "returned"
     /\ pipe.payload[1].source_url = None
     /\ pipe.env[1].detect = None)
        => /\ ~pipe.out[1].ok
           /\ pipe.out[1].exc = "RuntimeError: unable to detect"
           /\ PipeCalls = <<DetectCall>>

\* thread t has run the task of an image job enqueued with a page only, in a
\* world where the detector returns nothing, and the run is over
UndetectedRunOver(t) ==
    /\ thr[t].kind = "image"
    /\ thr[t].tpayload = Some(PagePayload)
    /\ thr[t].env # None
    /\ thr[t].env[1].detect = None
    /\ thr[t].dpc \in {"returned", "raised"}

\* C23: when the request has no source_url and the detector returns nothing (no
\* candidate after the retry, or a timeout, which detect turns into None), the
\* run of the task ends with the detection failure raised and the job failed,
\* its error being the message of that failure.
C23_UndetectedJobFails ==
    \A t \in Threads :
        UndetectedRunOver(t) =>
            /\ thr[t].dpc = "raised"
            /\ thr[t].prop = ExcAt("RuntimeError: unable to detect", "pipeline")
            /\ Rec(thr[t].proc, thr[t].tjid) # None
            /\ Rec(thr[t].proc, thr[t].tjid)[1].status = "failed"
            /\ Rec(thr[t].proc, thr[t].tjid)[1].error = Some("RuntimeError: unable to detect")

----------------------------------------------------------------------------
(* The dispatchers, step by step *)

\* what the pipeline of the task thread t runs gives for its arguments
PipelineOf(t) == RunPipeline(thr[t].kind, thr[t].tpayload[1], thr[t].env[1])

\* mark_processing has returned normally to the task of thread t, which invokes
\* its pipeline in this step
InvokesPipeline(t) ==
    /\ thr[t].act = "task" /\ thr[t].dpc = "processing"
    /\ thr[t].pc = "ret" /\ thr[t].exc = "none"
    /\ thr'[t].dpc # "processing"

\* what C24 asks of one step of thread t
DispatcherStep(t) ==
    \* a run starts with mark_processing and passes it once
    /\ (thr[t].dpc # "processing" /\ thr'[t].dpc = "processing")
           => thr[t].act # "task" /\ thr'[t].op = "mark_processing"
    \* mark_completed is entered from nowhere but a successful pipeline, which
    \* ran after a mark_processing that returned normally, with its result
    /\ (thr[t].dpc # "completing" /\ thr'[t].dpc = "completing")
           => /\ InvokesPipeline(t)
              /\ thr[t].op = "mark_processing"
              /\ PipelineOf(t).ok
              /\ thr'[t].op = "mark_completed"
              /\ thr'[t].pc = "copy"
              /\ thr'[t].result = Some(PipelineOf(t).value)
    \* when the pipeline is invoked the job is processing; it leads to
    \* mark_completed if it succeeds and to the handler if it raises
    /\ InvokesPipeline(t)
           => /\ \E p \in Procs, j \in JobIds :
                    /\ p = thr[t].proc /\ j = thr[t].tjid
                    /\ Rec(p, j) # None
                    /\ Rec(p, j)[1].status = "processing"
              /\ thr'[t].dpc = IF PipelineOf(t).ok THEN "completing" ELSE "failing"
    \* after mark_completed the task returns: mark_failed is not called
    /\ (thr[t].dpc = "completing" /\ thr'[t].dpc # "completing")
           => thr'[t].dpc = "returned" /\ thr[t].exc = "none"
    \* the handler calls mark_failed once and lets the exception out
    /\ (thr[t].dpc # "failing" /\ thr'[t].dpc = "failing")
           => thr'[t].op = "mark_failed"
    /\ (thr[t].dpc = "failing" /\ thr'[t].dpc # "failing")
           => thr'[t].dpc = "raised"

\* C24: in every run of either task mark_processing comes first and has
\* returned before the pipeline is invoked, the pipeline is invoked once at
\* most, and when it succeeds mark_completed is called once with its serialized
\* result and mark_failed is not called; both tasks go through the same calls.
C24_DispatcherOrder == [][\A t \in Threads : DispatcherStep(t)]_vars

\* a run of the critical-CSS task has returned normally and its job is
\* completed with the result of its pipeline
C24_Witness ==
    \E t \in Threads :
        /\ thr[t].dpc = "returned" /\ thr[t].kind = "critical_css"
        /\ Rec(thr[t].proc, thr[t].tjid) # None
        /\ Rec(thr[t].proc, thr[t].tjid)[1].status = "completed"
        /\ Rec(thr[t].proc, thr[t].tjid)[1].result = Some(PipelineOf(t).value)

\* thread t writes the store's entry for job_id j of process p in this step
WritesEntry(t, p, j) ==
    /\ thr[t].proc = p
    /\ thr[t].jid = j
    /\ InsertStep(t) \/ UpdateStep(t)

\* C28: operations on one job_id leave the record of every other job_id as it
\* was: the record a store holds for a job changes only in the insert of a
\* create_job or the update of a transition called with that job's id, whatever
\* other threads do to other jobs in between, and what is stored for a job is a
\* record of that job.
C28_OtherJobsUntouched ==
    [][\A p \in Procs, j \in JobIds :
          /\ Rec(p, j)' # Rec(p, j) => \E t \in Threads : WritesEntry(t, p, j)
          /\ Rec(p, j)' # None => Rec(p, j)'[1].job_id = j]_vars

\* both jobs are stored, a transition on j1 has just returned its record, and j2
\* is still the queued record its create_job made
C28_Witness ==
    /\ Rec("api", "j1") # None
    /\ Rec("api", "j2") # None
    /\ Rec("api", "j1")[1].status = "processing"
    /\ Rec("api", "j2")[1].status = "queued"
    /\ Rec("api", "j2")[1].result = None
    /\ Rec("api", "j2")[1].error = None
    /\ \E t \in Threads :
          /\ thr[t].pc = "ret" /\ thr[t].op = "mark_processing" /\ thr[t].exc = "none"
          /\ thr[t].ret = jobs["api"]["j1"]

\* thread t is inside an enqueue route that has not handed job j to its task yet
Enqueuing(t, j) == thr[t].act = "enqueue" /\ thr[t].tjid = j

\* what C29 asks of one step
CreatedBeforeHandover ==
    \A j \in JobIds :
        \* the route leaves create_job behind only with the queued record stored
        /\ \A t \in Threads :
              (Enqueuing(t, j) /\ thr'[t].act # "enqueue")
                  => /\ Rec("api", j) # None
                     /\ Rec("api", j)[1].status = "queued"
        \* a run of the task starts only for a job the API's store holds
        /\ \A t \in Threads :
              (thr[t].act # "task" /\ thr'[t].act = "task" /\ thr'[t].tjid = j)
                  => /\ jobs["api"][j] # 0
                     /\ thr'[t].op = "mark_processing"
        \* so does a message on its way to a worker
        /\ (\E i \in 1..Len(broker) : broker[i].job_id = j) => jobs["api"][j] # 0
        \* a job_id given out is one get_status finds: it answers 404 only for an
        \* id whose route is still running
        /\ (j \in used /\ ~\E t \in Threads : Enqueuing(t, j)) => jobs["api"][j] # 0
        /\ (seen'[j] = "404" /\ seen[j] # "404") => \E t \in Threads : Enqueuing(t, j)

\* C29: both enqueue routes store the job's record, queued, before they hand the
\* task over: no run of a task executes mark_processing for a job_id the
\* enqueuing store does not hold, and a job_id the route has returned is one for
\* which get_status finds a record.
C29_CreatedBeforeEnqueued == [][CreatedBeforeHandover]_vars

\* a worker has started the task of a message of the critical-CSS route, whose
\* record the API's store holds, and a client has read that job's status
C29_Witness ==
    \E t \in Threads :
        /\ thr[t].act = "task" /\ thr[t].proc = "worker" /\ thr[t].kind = "critical_css"
        /\ jobs["api"][thr[t].tjid] # 0
        /\ seen[thr[t].tjid] = "queued"

\* the format at which TinyPNG fails the pipeline run of thread t (None: at none)
FailingFormat(t) ==
    LET normalized == _normalize_formats(ImageConversionRequest(thr[t].tpayload[1]).formats)
        env == thr[t].env[1]
    IN  IF /\ thr[t].kind = "image"
           /\ ImageRequestValid(thr[t].tpayload[1])
           /\ _resolve_source(ImageConversionRequest(thr[t].tpayload[1]), env).ok
           /\ env.key /\ env.fetch
           /\ env.tinify_fail \in 1..Len(normalized)
        THEN Some([at |-> env.tinify_fail, format |-> normalized[env.tinify_fail],
                   before |-> [i \in 1..env.tinify_fail |-> TinifyCall(normalized[i])]])
        ELSE None

\* the calls to TinyPNG among the calls of a run
TinifyCalls(calls) == SelectSeq(calls, LAMBDA c : c.call = "tinify")

\* what C26 asks of one step of thread t
FailFastStep(t) ==
    \* the pipeline stops at the failing format and raises an error that names it;
    \* the handler records that error with one mark_failed
    /\ (InvokesPipeline(t) /\ FailingFormat(t) # None)
           => /\ ~PipelineOf(t).ok
              /\ TinifyCalls(PipelineOf(t).calls) = FailingFormat(t)[1].before
              /\ PipelineOf(t).exc = ConversionFailed(FailingFormat(t)[1].format)
              /\ thr'[t].dpc = "failing"
              /\ thr'[t].op = "mark_failed"
              /\ thr'[t].pc = "copy"
              /\ thr'[t].message = ConversionFailed(FailingFormat(t)[1].format)
    \* from the handler the run only goes out, and the job never gets a result
    /\ (thr[t].dpc = "failing" /\ thr'[t].dpc # "failing") => thr'[t].dpc = "raised"
    /\ (/\ thr'[t].act = "task" \/ thr'[t].dpc = "raised"
        /\ thr'[t].orig # <<>>
        /\ thr'[t].orig[2] = "pipeline")
           => \A p \in Procs, j \in JobIds :
                 (p = thr'[t].proc /\ j = thr'[t].tjid)
                     => /\ Rec(p, j)' # None
                        /\ Rec(p, j)'[1].result = None
                        /\ Rec(p, j)'[1].status # "completed"

\* C26: when the conversion of a requested format fails the pipeline stops
\* there: no later format is converted, the error raised names the failing
\* format and its cause, the job never gets a result, not a partial one either,
\* and the run makes one mark_failed call.
C26_FailFast == [][\A t \in Threads : FailFastStep(t)]_vars

\* a run whose second format failed is over, the job failed with the error that
\* names that format
C26_Witness ==
    \E t \in Threads :
        /\ thr[t].dpc = "raised"
        /\ FailingFormat(t) # None
        /\ FailingFormat(t)[1].at = 2
        /\ thr[t].prop = ExcAt(ConversionFailed("png"), "pipeline")
        /\ Rec(thr[t].proc, thr[t].tjid) # None
        /\ Rec(thr[t].proc, thr[t].tjid)[1].status = "failed"
        /\ Rec(thr[t].proc, thr[t].tjid)[1].error = Some(ConversionFailed("png"))
        /\ Rec(thr[t].proc, thr[t].tjid)[1].result = None

----------------------------------------------------------------------------
(* The detection pass *)

\* what C25 asks of one step of a pass
CollectionStep ==
    /\ det'.collections <= 2
    \* the second collection follows an empty first one and nothing else
    /\ (det.collections = 1 /\ det'.collections = 2) => det.candidates = <<>>
    \* a first collection that is empty is followed by the second one
    /\ (det.phase = "first" /\ det.candidates = <<>> /\ det'.phase # "first")
           => det'.collections = 2
    \* candidates once found are the ones the pass goes on with
    /\ (det.candidates # <<>>) => det'.candidates = det.candidates
    \* the selection after an empty retry gives None and raises nothing
    /\ (det.phase = "second" /\ det.candidates = <<>> /\ det'.phase # "second")
           => det'.phase = "done" /\ det'.best = None /\ det'.exc = "none"
    \* and detect returns None then, or the best of the candidates it kept
    /\ (det'.phase = "returned" /\ det'.collections = 2 /\ det'.candidates = <<>>)
           => det'.returned = None /\ det'.exc = "none"
    /\ (det'.phase = "returned" /\ det'.candidates # <<>>)
           => det'.returned = Some(MaxByScore(det'.candidates))

\* C25: in one detection pass the candidates are collected twice at most; the
\* second collection happens exactly when the first one returned an empty list;
\* when the list is empty after it too the pass returns None and raises
\* nothing; a non-empty first collection is never discarded.
C25_RetryOnceWhenEmpty == [][CollectionStep]_vars

\* a pass has returned None after two empty collections
C25_Witness ==
    /\ det.phase = "returned" /\ det.collections = 2
    /\ det.candidates = <<>> /\ det.returned = None /\ det.exc = "none"

====
